---- MODULE Spec2Model ----
(***************************************************************************)
(* FixedMerkleTree of core/util/fixed_merkle_tree.go as a state machine.   *)
(*                                                                         *)
(* One tree object (fmt) is shared by the callers in Procs.  Each caller   *)
(* issues Write, Finalize, Reload, GetMerkleRoot and VerifyMerklePath      *)
(* calls; a call that takes the tree's mutex is split at the Lock() so     *)
(* that a caller can be seen waiting for it.                               *)
(*                                                                         *)
(* Sizes are scaled down so that windows, chunks and the fold stay         *)
(* enumerable: 4 leaves of 2-byte chunks (a window of 8 bytes) instead of  *)
(* 1024 leaves of 64-byte chunks (a window of 65536 bytes), and a fold     *)
(* bound of log2(leaves)+1 = 3 instead of 11.  The leaf count stays a      *)
(* power of two and the window stays chunk size x leaf count.              *)
(*                                                                         *)
(* Hashes are modelled as injective, domain-separated constructors: a      *)
(* leaf digest is the tagged byte sequence the leaf has absorbed, and the  *)
(* combinator of two digests is the tagged pair (collision-free hashing).  *)
(*                                                                         *)
(* findDelta of the sync app (zboxcore/sdk) is modelled next to it as a    *)
(* call of its own: the maps it builds and one step per iteration of its   *)
(* two loops over Go maps, whose iteration order is left open.             *)
(***************************************************************************)
EXTENDS Integers, Sequences, FiniteSets, TLC

\* ------------------------------------------------------------ constants
MerkleChunkSize == 2
FixedMerkleLeaves == 4
MaxMerkleLeavesSize == MerkleChunkSize * FixedMerkleLeaves
FixedMTDepth == 3

\* --------------------------------------------------------------- bounds
\* Number of concurrent callers of the tree.
NumProcs == 2
\* Calls issued on the tree in one run.
MaxCalls == 5
\* Calls issued in one run that may call Reload.
MaxReloadCalls == 3
\* Calls issued in one run of concurrent callers.
MaxConcCalls == 3
\* Length of the content the callers stream into the tree.
MaxTotal == 26
\* Reload calls issued on the tree in one run.
MaxReloads == 1
\* Read errors one source reports.
MaxReadErrs == 1
\* Most bytes a failing read delivers together with its error.
MaxFailAt == 1
\* Claimed leaf indexes tried by a verifier: -MaxIndex .. MaxIndex.
MaxIndex == 8
\* Number of distinct paths the file lists of findDelta draw from, and the
\* longest list.
MaxPaths == 2

\* Lengths of the arguments of Write: empty, less than a chunk, across a
\* chunk boundary, a window, across a window boundary, across two.
WriteLens ==
  {0, 1, MerkleChunkSize + 1, MaxMerkleLeavesSize, MaxMerkleLeavesSize + 1,
   2 * MaxMerkleLeavesSize + 1}
\* Lengths of the arguments of Write when callers run concurrently.
ConcLens == {0, 1, MerkleChunkSize + 1}
\* Lengths of the sources of Reload: empty, less than a window, a window,
\* across a window boundary, two windows.
SrcLens ==
  {0, MerkleChunkSize + 1, MaxMerkleLeavesSize, MaxMerkleLeavesSize + 1,
   2 * MaxMerkleLeavesSize}

Procs == 1..NumProcs
LeafIdx == 0..(FixedMerkleLeaves - 1)

Nil == "nil"
Free == 0

ErrAlreadyFinalized == "already finalized"
ErrTreeFinalized == "cannot write. Tree is already finalized"
ErrTooLarge == "data size greater than maximum required size"
ErrInvalidLeafWrite == "invalid merkle leaf write"
ErrEOF == "EOF"
ErrRead == "read error"

Min(a, b) == IF a < b THEN a ELSE b

\* ---------------------------------------------------------------- hashes
\* leaf.GetHashBytes: sha3-256 of everything written to the leaf.
GetHashBytes(bytes) == <<"leaf", bytes>>

\* MHashBytes: the two-input combinator of the fold.
MHashBytes(a, b) == <<"node", a, b>>

\* hex.EncodeToString of a digest.
HexEncode(d) == <<"hex", d>>

\* getNewLeaf / initLeaves: every leaf at its zero-byte hash state.
initLeaves == [l \in LeafIdx |-> <<>>]

\* -------------------------------------------------------- writeToLeaves
\* The chunk loop of writeToLeaves: chunk number leafInd of b goes to leaf
\* leafInd.
RECURSIVE ChunkLoop(_, _, _, _)
\* The loop with every chunk written to the first leaf (leafInd++ left
\* out).
ChunkLoopFirstLeaf(leaves, b, i, leafInd) ==
  IF i >= Len(b) THEN leaves
  ELSE LET j0 == i + MerkleChunkSize
           j  == IF j0 > Len(b) THEN Len(b) ELSE j0
       IN ChunkLoop([leaves EXCEPT ![leafInd] = @ \o SubSeq(b, i + 1, j)],
                    b, i + MerkleChunkSize, leafInd)

ChunkLoop(leaves, b, i, leafInd) ==
  IF i >= Len(b) THEN leaves
  ELSE LET j0 == i + MerkleChunkSize
           j  == IF j0 > Len(b) THEN Len(b) ELSE j0
       IN ChunkLoop([leaves EXCEPT ![leafInd] = @ \o SubSeq(b, i + 1, j)],
                    b, i + MerkleChunkSize, leafInd + 1)

\* t is the tree [Leaves, isFinal, writeCount, writeBytes]; the result is
\* the tree afterwards, the error returned and size, the length of b.
writeToLeaves(t, b) ==
  IF Len(b) > MaxMerkleLeavesSize
    THEN [t |-> t, err |-> ErrTooLarge, size |-> Len(b)]
  ELSE IF Len(b) < MaxMerkleLeavesSize /\ ~t.isFinal
    THEN [t |-> t, err |-> ErrInvalidLeafWrite, size |-> Len(b)]
  ELSE [t |-> [t EXCEPT !.Leaves = ChunkLoop(t.Leaves, b, 0, 0)],
        err |-> Nil, size |-> Len(b)]

\* ---------------------------------------------------------------- Write
\* The copy with the bytes placed at the start of the buffer instead of
\* after the bytes already staged.
CopyIntoAtStart(buf, prev, count, b, i) ==
  [k \in 1..Len(buf) |->
     IF k <= count - prev THEN b[i + k] ELSE buf[k]]

\* copy(fmt.writeBytes[prev:count], b[i:j])
CopyInto(buf, prev, count, b, i) ==
  [k \in 1..Len(buf) |->
     IF k > prev /\ k <= count THEN b[i + (k - prev)] ELSE buf[k]]

\* The for loop of Write, after the lock is taken and isFinal was found
\* false.  The result is the tree afterwards, the count and the error.
RECURSIVE WriteLoop(_, _, _, _)
\* The writeCount values r and c, the larger as the peak of r.
WithPeak(r, c) == [r EXCEPT !.peak = IF c > @ THEN c ELSE @]

\* The dispatches of r after one of size bytes.
WithSize(r, size) == [r EXCEPT !.sizes = <<size>> \o @]

\* The loop with bytes left staged by an earlier call dispatched as a
\* window of their own when the next call arrives, which writeToLeaves
\* rejects before Finalize.
WriteLoopDispatchStaged(t, b, i, j0) ==
  IF i >= Len(b)
    THEN [t |-> t, n |-> Len(b), err |-> Nil, peak |-> t.writeCount,
          sizes |-> <<>>]
  ELSE IF i = 0 /\ t.writeCount > 0
    THEN LET r == writeToLeaves(t, SubSeq(t.writeBytes, 1, t.writeCount))
         IN [t |-> r.t, n |-> 0, err |-> r.err, peak |-> t.writeCount,
             sizes |-> <<r.size>>]
  ELSE LET j == IF j0 > Len(b) THEN Len(b) ELSE j0
           count == t.writeCount + (j - i)
           t1 == [t EXCEPT !.writeCount = count,
                           !.writeBytes = CopyInto(@, t.writeCount, count, b, i)]
       IN IF count = MaxMerkleLeavesSize
            THEN WithSize(
                   WithPeak(WriteLoop([writeToLeaves(t1, t1.writeBytes).t
                                         EXCEPT !.writeCount = 0],
                                      b, j, j + MaxMerkleLeavesSize), count),
                   Len(t1.writeBytes))
            ELSE WithPeak(WriteLoop(t1, b, j, j + MaxMerkleLeavesSize), count)

\* The loop without fmt.writeCount = 0 after a window was dispatched.
WriteLoopNoReset(t, b, i, j0) ==
  IF i >= Len(b)
    THEN [t |-> t, n |-> Len(b), err |-> Nil, peak |-> t.writeCount,
          sizes |-> <<>>]
  ELSE LET j == IF j0 > Len(b) THEN Len(b) ELSE j0
           prevWriteCount == t.writeCount
           count == prevWriteCount + (j - i)
           t1 == [t EXCEPT !.writeCount = count,
                           !.writeBytes = CopyInto(@, prevWriteCount, count, b, i)]
       IN IF count = MaxMerkleLeavesSize
            THEN LET r == writeToLeaves(t1, t1.writeBytes)
                 IN IF r.err # Nil
                      THEN [t |-> r.t, n |-> 0, err |-> r.err, peak |-> count,
                            sizes |-> <<r.size>>]
                      ELSE WithSize(
                             WithPeak(WriteLoop(r.t, b, j,
                                                j + MaxMerkleLeavesSize),
                                      count),
                             r.size)
            ELSE WithPeak(WriteLoop(t1, b, j, j + MaxMerkleLeavesSize), count)

\* The result is the tree afterwards, the count, the error, peak, the
\* largest value fmt.writeCount took during the loop, and sizes, the
\* lengths of the slices passed to writeToLeaves, in order.
WriteLoop(t, b, i, j0) ==
  IF i >= Len(b)
    THEN [t |-> t, n |-> Len(b), err |-> Nil, peak |-> t.writeCount,
          sizes |-> <<>>]
  ELSE LET j == IF j0 > Len(b) THEN Len(b) ELSE j0
           prevWriteCount == t.writeCount
           count == prevWriteCount + (j - i)
           t1 == [t EXCEPT !.writeCount = count,
                           !.writeBytes = CopyInto(@, prevWriteCount, count, b, i)]
       IN IF count = MaxMerkleLeavesSize
            THEN LET r == writeToLeaves(t1, t1.writeBytes)
                 IN IF r.err # Nil
                      THEN [t |-> r.t, n |-> 0, err |-> r.err, peak |-> count,
                            sizes |-> <<r.size>>]
                      ELSE WithSize(
                             WithPeak(WriteLoop([r.t EXCEPT !.writeCount = 0],
                                                b, j, j + MaxMerkleLeavesSize),
                                      count),
                             r.size)
            ELSE WithPeak(WriteLoop(t1, b, j, j + MaxMerkleLeavesSize), count)

\* Write on an unlocked tree, as one sequential call.
WriteOp(t, b) ==
  IF t.isFinal
    THEN [t |-> t, n |-> 0, err |-> ErrTreeFinalized, peak |-> t.writeCount,
          sizes |-> <<>>]
  ELSE WriteLoop(t, b, 0, MaxMerkleLeavesSize - t.writeCount)

\* Finalize's flush: the staged bytes go to the leaves as the last window.
\* Finalize without the flush of the staged bytes.
FinalizeFlushNothing(t) == [t |-> t, err |-> Nil, sizes |-> <<>>]

\* The flush with the whole buffer passed instead of the staged bytes.
FinalizeFlushWholeBuffer(t) ==
  IF t.writeCount > 0
    THEN LET r == writeToLeaves(t, t.writeBytes)
         IN [t |-> r.t, err |-> r.err, sizes |-> <<r.size>>]
    ELSE [t |-> t, err |-> Nil, sizes |-> <<>>]

FinalizeFlushOp(t) ==
  IF t.writeCount > 0
    THEN LET r == writeToLeaves(t, SubSeq(t.writeBytes, 1, t.writeCount))
         IN [t |-> r.t, err |-> r.err, sizes |-> <<r.size>>]
    ELSE [t |-> t, err |-> Nil, sizes |-> <<>>]

\* Finalize on an unlocked, not yet finalized tree, as one sequential call.
FinalizeOp(t) == FinalizeFlushOp([t EXCEPT !.isFinal = TRUE])

\* ------------------------------------------------- CalculateMerkleRoot
\* One iteration of the fold: the odd-count duplication and the pairing.
FoldRound(nodes) ==
  LET padded == IF Len(nodes) % 2 = 1
                  THEN Append(nodes, nodes[Len(nodes)]) ELSE nodes
  IN [k \in 1..((Len(nodes) + 1) \div 2) |->
        MHashBytes(padded[2 * k - 1], padded[2 * k])]

\* The loop of CalculateMerkleRoot from iteration i on: the nodes it ends
\* with and starts, the node count at the start of each iteration it ran.
RECURSIVE FoldLoop(_, _)
\* The loop without the break at one node.
FoldLoopNoBreak(nodes, i) ==
  IF i >= FixedMTDepth THEN [nodes |-> nodes, starts |-> <<>>]
  ELSE LET r == FoldLoop(FoldRound(nodes), i + 1)
       IN [r EXCEPT !.starts = <<Len(nodes)>> \o @]

FoldLoop(nodes, i) ==
  IF i >= FixedMTDepth THEN [nodes |-> nodes, starts |-> <<>>]
  ELSE LET newNodes == FoldRound(nodes)
       IN IF Len(newNodes) = 1
            THEN [nodes |-> newNodes, starts |-> <<Len(nodes)>>]
            ELSE LET r == FoldLoop(newNodes, i + 1)
                 IN [r EXCEPT !.starts = <<Len(nodes)>> \o @]

LeafHashes(leaves) ==
  [k \in 1..FixedMerkleLeaves |-> GetHashBytes(leaves[k - 1])]

\* The value CalculateMerkleRoot stores in fmt.merkleRoot.
CalculateMerkleRoot(leaves) == FoldLoop(LeafHashes(leaves), 0).nodes[1]

\* ------------------------------------------------------ VerifyMerklePath
\* Go's leafInd&1 and leafInd/2 on a signed int: the low bit of the two's
\* complement value, and division truncated towards zero.
LowBit(x) == x % 2
Half(x) == IF x >= 0 THEN x \div 2 ELSE -((-x) \div 2)

RECURSIVE VerifyLoop(_, _, _, _)
\* The loop without leafInd = leafInd / 2.
VerifyLoopNoHalve(nodes, i, leafInd, hash) ==
  IF i > Len(nodes) THEN hash
  ELSE VerifyLoop(nodes, i + 1, leafInd,
                  IF LowBit(leafInd) = 0
                    THEN MHashBytes(hash, nodes[i])
                    ELSE MHashBytes(nodes[i], hash))

\* The loop with the proven node always taken as the left child.
VerifyLoopLeftOnly(nodes, i, leafInd, hash) ==
  IF i > Len(nodes) THEN hash
  ELSE VerifyLoop(nodes, i + 1, Half(leafInd), MHashBytes(hash, nodes[i]))

VerifyLoop(nodes, i, leafInd, hash) ==
  IF i > Len(nodes) THEN hash
  ELSE VerifyLoop(nodes, i + 1, Half(leafInd),
                  IF LowBit(leafInd) = 0
                    THEN MHashBytes(hash, nodes[i])
                    ELSE MHashBytes(nodes[i], hash))

\* fp = [LeafHash, RootHash, Nodes, LeafInd]
VerifyMerklePath(fp) ==
  VerifyLoop(fp.Nodes, 1, fp.LeafInd, fp.LeafHash) = fp.RootHash

\* ------------------------------------------------------------- BuildPath
\* The proof of leaf leafInd: the sibling of the proven node at every level
\* of the fold, leaf level first, and the root the fold ends with.
RECURSIVE SiblingNodes(_, _)
SiblingNodes(nodes, idx) ==
  IF Len(nodes) <= 1 THEN <<>>
  ELSE LET padded == IF Len(nodes) % 2 = 1
                       THEN Append(nodes, nodes[Len(nodes)]) ELSE nodes
           sib    == IF idx % 2 = 0 THEN idx + 1 ELSE idx - 1
       IN <<padded[sib + 1]>> \o SiblingNodes(FoldRound(nodes), idx \div 2)

BuildPath(leaves, leafInd) ==
  [LeafHash |-> GetHashBytes(leaves[leafInd]),
   RootHash |-> CalculateMerkleRoot(leaves),
   Nodes    |-> SiblingNodes(LeafHashes(leaves), leafInd),
   LeafInd  |-> leafInd]

\* ---------------------------------------------------------------- CopyN
\* io.CopyN(bytesBuf, reader, MaxMerkleLeavesSize) on a reader holding the
\* bytes rd.  failAt = -1: the source reports no error during this call;
\* failAt = k: the source reports ErrRead after delivering k more bytes.
CopyN(rd, failAt) ==
  LET want == Min(MaxMerkleLeavesSize, Len(rd))
      got  == IF failAt >= 0 THEN failAt ELSE want
  IN [buf     |-> SubSeq(rd, 1, got),
      rest    |-> SubSeq(rd, got + 1, Len(rd)),
      written |-> got,
      err     |-> IF failAt >= 0 THEN ErrRead
                  ELSE IF got = MaxMerkleLeavesSize THEN Nil ELSE ErrEOF]

\* Reload from a source that yields rd and then end-of-input, as one step:
\* initLeaves, then a Write of each window CopyN delivers until Write
\* fails or CopyN delivers nothing.
RECURSIVE ReloadLoop(_, _)
ReloadLoop(t, rd) ==
  LET c == CopyN(rd, -1)
      w == WriteOp(t, c.buf)
  IN IF c.written > 0
       THEN IF w.err # Nil THEN [t |-> w.t, err |-> w.err]
            ELSE ReloadLoop(w.t, c.rest)
       ELSE [t |-> t, err |-> Nil]

ReloadOp(t, rd) == ReloadLoop([t EXCEPT !.Leaves = initLeaves], rd)

\* -------------------------------------------------------------- findDelta
\* The operations of the sync app.
Upload == "Upload"
Download == "Download"
Update == "Update"
Delete == "Delete"
Conflict == "Conflict"
LocalDelete == "LocalDelete"

\* Paths and hashes of the files listed, and the lists the callers of
\* findDelta pass: fileInfo values (Size is not read by findDelta) with
\* distinct paths, in any order.
Paths == 1..MaxPaths
Hashes == {"h1", "h2"}
FileInfos == [Path : Paths, Hash : Hashes]
FileLists ==
  { l \in UNION { [1..n -> FileInfos] : n \in 0..MaxPaths } :
      \A i, j \in 1..Len(l) : i # j => l[i].Path # l[j].Path }

PathsOf(list) == { list[i].Path : i \in 1..Len(list) }

\* The last element of list, among those with the indexes in idx, that
\* has path p.
LastOf(list, idx, p) ==
  list[CHOOSE i \in idx :
         /\ list[i].Path = p
         /\ \A j \in idx : list[j].Path = p => j <= i]

\* m[f.Path] = f.Hash for every f of list, in order.
HashMap(list) ==
  [p \in PathsOf(list) |-> LastOf(list, 1..Len(list), p).Hash]

\* The map of the files of list whose hash differs from the one prevMap
\* has for their path.
ModMap(list, prevMap) ==
  LET idx == { i \in 1..Len(list) :
                 /\ list[i].Path \in DOMAIN prevMap
                 /\ prevMap[list[i].Path] # list[i].Hash }
  IN [p \in { list[i].Path : i \in idx } |-> LastOf(list, idx, p).Hash]

\* delete(m, p)
MapDelete(m, p) == [q \in DOMAIN m \ {p} |-> m[q]]

\* The locals of findDelta once the three maps and the two modification
\* maps are built.
DeltaMapsOf(d) ==
  LET prevMap == HashMap(d.prevRemote)
      rMap    == HashMap(d.remote)
  IN [d EXCEPT !.prevMap = prevMap,
               !.rMap = rMap,
               !.rMod = ModMap(d.remote, prevMap),
               !.lMap = HashMap(d.local),
               !.lMod = ModMap(d.local, prevMap),
               !.rTodo = DOMAIN rMap,
               !.pc = "remote"]

\* The iteration without delete(lMap, rPath) for a file modified locally.
RemoteIterKeepsLocal(d, rPath) ==
  LET bRemoteModified == rPath \in DOMAIN d.rMod
      bLocalModified  == rPath \in DOMAIN d.lMod
      done == [d EXCEPT !.rTodo = @ \ {rPath}]
      With(op) == [done EXCEPT
                     !.lFDiff = Append(@, [Path |-> rPath, Op |-> op])]
  IN IF bRemoteModified /\ bLocalModified THEN With(Conflict)
     ELSE IF bLocalModified THEN With(Update)
     ELSE IF rPath \in DOMAIN d.lMap
       THEN [done EXCEPT !.lMap = MapDelete(d.lMap, rPath)]
     ELSE IF rPath \in DOMAIN d.prevMap THEN With(Delete)
     ELSE With(Download)

\* One iteration of the loop over rMap, for the key rPath.
RemoteIter(d, rPath) ==
  LET bRemoteModified == rPath \in DOMAIN d.rMod
      bLocalModified  == rPath \in DOMAIN d.lMod
      lMap1 == IF bLocalModified THEN MapDelete(d.lMap, rPath) ELSE d.lMap
      done  == [d EXCEPT !.rTodo = @ \ {rPath}, !.lMap = lMap1]
      With(op) == [done EXCEPT
                     !.lFDiff = Append(@, [Path |-> rPath, Op |-> op])]
  IN IF bRemoteModified /\ bLocalModified THEN With(Conflict)
     ELSE IF bLocalModified THEN With(Update)
     ELSE IF rPath \in DOMAIN lMap1
       THEN [done EXCEPT !.lMap = MapDelete(lMap1, rPath)]
     ELSE IF rPath \in DOMAIN d.prevMap THEN With(Delete)
     ELSE With(Download)

\* One iteration of the loop over lMap, for the key lPath.
LocalIter(d, lPath) ==
  LET op == IF lPath \in DOMAIN d.lMod THEN Update
            ELSE IF lPath \in DOMAIN d.prevMap THEN LocalDelete
            ELSE Upload
  IN [d EXCEPT !.lTodo = @ \ {lPath},
               !.lFDiff = Append(@, [Path |-> lPath, Op |-> op])]

\* findDelta(remote, local, prevRemote) when it is called.
NewDelta(remote, local, prevRemote) ==
  [pc |-> "maps", remote |-> remote, local |-> local,
   prevRemote |-> prevRemote, prevMap |-> <<>>, rMap |-> <<>>,
   rMod |-> <<>>, lMap |-> <<>>, lMod |-> <<>>, rTodo |-> {}, lTodo |-> {},
   lFDiff |-> <<>>]

\* No findDelta call.
NoDelta == [NewDelta(<<>>, <<>>, <<>>) EXCEPT !.pc = "none"]

\* ------------------------------------------------------------------ state
VARIABLES
  Leaves,      \* fmt.Leaves: the bytes each leaf's hash has absorbed
  isFinal,     \* fmt.isFinal
  writeCount,  \* fmt.writeCount
  writeBytes,  \* fmt.writeBytes
  merkleRoot,  \* fmt.merkleRoot, <<>> while nil
  writeLock,   \* fmt.writeLock: Free, or the caller whose Lock() locked it
  pc,          \* where each caller is in its call
  frame,       \* the locals of each caller's call
  ret,         \* what each caller's last call returned
  file,        \* the content the callers stream into the tree
  off,         \* how much of file has been handed to Write calls
  nCalls,      \* calls issued on the tree so far
  nReloads,    \* Reload calls issued on the tree so far
  stream,      \* the arguments of the Write calls that returned success
  pieces,      \* the lengths of the arguments of the callers' successful Writes
  rootEarly,   \* GetMerkleRoot was called before a Finalize had returned nil
  reloadRes,   \* <<>>, or what the last Reload called has returned
  finalizedOK, \* a Finalize call has returned nil
  unguarded,   \* <<operation, field>> touched by Write or Finalize without the mutex
  proof,       \* the last path a verifier checked, with the verdict
  delta        \* the locals of the findDelta call

vars == <<Leaves, isFinal, writeCount, writeBytes, merkleRoot, writeLock,
          pc, frame, ret, file, off, nCalls, nReloads, stream, pieces,
          rootEarly, reloadRes, finalizedOK, unguarded, proof, delta>>

treeVars == <<Leaves, isFinal, writeCount, writeBytes, merkleRoot, writeLock>>

\* The tree as the record the operators above work on.
Tree ==
  [Leaves |-> Leaves, isFinal |-> isFinal,
   writeCount |-> writeCount, writeBytes |-> writeBytes]

\* NewFixedMerkleTree
NewFixedMerkleTree ==
  [Leaves |-> initLeaves, isFinal |-> FALSE, writeCount |-> 0,
   writeBytes |-> [k \in 1..MaxMerkleLeavesSize |-> 0]]

\* What a used tree carries into a Reload: staged bytes, the finalized flag
\* and a cached root.
Unused == [staged |-> 0, isFinal |-> FALSE, cached |-> FALSE]

IdleFrame ==
  [b |-> <<>>, reload |-> FALSE, reader |-> <<>>, src |-> <<>>,
   readErrs |-> 0, afterFinal |-> FALSE, before |-> Unused]

NoRet ==
  [op |-> "none", n |-> 0, err |-> Nil, val |-> <<>>,
   afterFinal |-> FALSE, src |-> <<>>, readErrs |-> 0, before |-> Unused]

\* The contents streamed: all zero bytes, and a stream whose chunks differ.
Files ==
  { [k \in 1..MaxTotal |-> 0], [k \in 1..MaxTotal |-> k % 5] }

Init ==
  /\ Leaves = NewFixedMerkleTree.Leaves
  /\ isFinal = NewFixedMerkleTree.isFinal
  /\ writeCount = NewFixedMerkleTree.writeCount
  /\ writeBytes = NewFixedMerkleTree.writeBytes
  /\ merkleRoot = <<>>
  /\ writeLock = Free
  /\ pc = [p \in Procs |-> "idle"]
  /\ frame = [p \in Procs |-> IdleFrame]
  /\ ret = [p \in Procs |-> NoRet]
  /\ file \in Files
  /\ off = 0
  /\ nCalls = 0
  /\ nReloads = 0
  /\ stream = <<>>
  /\ pieces = <<>>
  /\ rootEarly = FALSE
  /\ reloadRes = <<>>
  /\ finalizedOK = FALSE
  /\ unguarded = {}
  /\ proof = <<>>
  /\ delta = NoDelta

\* ---------------------------------------------------------------- returns
callVars == <<pc, frame, ret>>
envVars == <<file, off, nCalls, nReloads>>

SetTree(t) ==
  /\ Leaves' = t.Leaves
  /\ isFinal' = t.isFinal
  /\ writeCount' = t.writeCount
  /\ writeBytes' = t.writeBytes

Result(f, op, n, err, val) ==
  [op |-> op, n |-> n, err |-> err, val |-> val,
   afterFinal |-> f.afterFinal, src |-> f.src, readErrs |-> f.readErrs,
   before |-> f.before]

\* The call of caller p returns r.
Return(p, r) ==
  /\ pc' = [pc EXCEPT ![p] = "idle"]
  /\ frame' = [frame EXCEPT ![p] = IdleFrame]
  /\ ret' = [ret EXCEPT ![p] = r]
  /\ reloadRes' = IF r.op = "Reload"
                    THEN <<[src |-> r.src, err |-> r.err,
                            readErrs |-> r.readErrs, before |-> r.before]>>
                    ELSE reloadRes

\* Write returns (n, err): to its caller, or to the Reload that called it,
\* which keeps only err (_, err = fmt.Write(...)), returns it when it is
\* not nil and reads on otherwise.
WriteReturn(p, n, err) ==
  IF frame[p].reload
    THEN IF err # Nil
           THEN Return(p, Result(frame[p], "Reload", 0, err, <<>>))
           ELSE /\ pc' = [pc EXCEPT ![p] = "reload_read"]
                /\ frame' = [frame EXCEPT ![p].b = <<>>]
                /\ UNCHANGED <<ret, reloadRes>>
    ELSE Return(p, Result(frame[p], "Write", n, err, <<>>))

\* The accesses of one step of operation op to the fields in fields, made
\* by caller p: recorded when p does not hold the mutex.
Touch(p, op, fields) ==
  unguarded' = IF writeLock = p THEN unguarded
               ELSE unguarded \cup {<<op, f>> : f \in fields}

NewFrame == [IdleFrame EXCEPT !.afterFinal = finalizedOK]

\* ------------------------------------------------------------------ Write
\* A caller calls Write with the next n bytes of the file and reaches
\* fmt.writeLock.Lock().
CallWrite(p, n) ==
  /\ pc[p] = "idle"
  /\ nCalls < MaxCalls
  /\ off + n <= MaxTotal
  /\ pc' = [pc EXCEPT ![p] = "write_lock"]
  /\ frame' = [frame EXCEPT ![p] =
                 [NewFrame EXCEPT !.b = SubSeq(file, off + 1, off + n)]]
  /\ off' = off + n
  /\ nCalls' = nCalls + 1
  /\ UNCHANGED <<treeVars, ret, file, nReloads, stream, pieces, rootEarly,
                 reloadRes, finalizedOK, unguarded, proof,
                 delta>>

\* Lock() succeeds; the isFinal test.  On a finalized tree Write returns
\* the error and the deferred Unlock runs.
\* if fmt.isFinal, with the test left out.
WriteRefusedNever(final) == FALSE

WriteRefused(final) == final

WriteLock(p) ==
  /\ pc[p] = "write_lock"
  /\ writeLock = Free
  /\ IF WriteRefused(isFinal)
       THEN /\ WriteReturn(p, 0, ErrTreeFinalized)
            /\ writeLock' = Free
       ELSE /\ pc' = [pc EXCEPT ![p] = "write_loop"]
            /\ writeLock' = p
            /\ UNCHANGED <<frame, ret, reloadRes>>
  /\ UNCHANGED <<Leaves, isFinal, writeCount, writeBytes, merkleRoot, envVars,
                 stream, pieces, rootEarly, finalizedOK, unguarded, proof,
                 delta>>

\* The loop of Write, its return and the deferred Unlock.
WriteBody(p) ==
  /\ pc[p] = "write_loop"
  /\ LET r == WriteLoop(Tree, frame[p].b, 0, MaxMerkleLeavesSize - writeCount)
     IN /\ SetTree(r.t)
        /\ WriteReturn(p, r.n, r.err)
        /\ stream' = IF r.err = Nil THEN stream \o frame[p].b ELSE stream
        /\ pieces' = IF r.err = Nil /\ ~frame[p].reload
                       THEN Append(pieces, Len(frame[p].b)) ELSE pieces
  /\ Touch(p, "Write", {"writeCount", "writeBytes", "isFinal", "Leaves"})
  /\ writeLock' = Free
  /\ UNCHANGED <<merkleRoot, envVars, rootEarly, finalizedOK, proof,
                 delta>>

\* --------------------------------------------------------------- Finalize
CallFinalize(p) ==
  /\ pc[p] = "idle"
  /\ nCalls < MaxCalls
  /\ pc' = [pc EXCEPT ![p] = "finalize_lock"]
  /\ frame' = [frame EXCEPT ![p] = NewFrame]
  /\ nCalls' = nCalls + 1
  /\ UNCHANGED <<treeVars, ret, file, off, nReloads, stream, pieces,
                 rootEarly, reloadRes, finalizedOK, unguarded, proof,
                 delta>>

\* Lock() succeeds.  On a finalized tree Finalize returns the error with
\* the mutex still locked; otherwise it sets isFinal and unlocks.
FinalizeLock(p) ==
  /\ pc[p] = "finalize_lock"
  /\ writeLock = Free
  /\ IF isFinal
       THEN /\ Return(p, Result(frame[p], "Finalize", 0, ErrAlreadyFinalized,
                                <<>>))
            /\ writeLock' = p
            /\ isFinal' = isFinal
       ELSE /\ isFinal' = TRUE
            /\ writeLock' = Free
            /\ pc' = [pc EXCEPT ![p] = "finalize_flush"]
            /\ UNCHANGED <<frame, ret, reloadRes>>
  /\ UNCHANGED <<Leaves, writeCount, writeBytes, merkleRoot, envVars, stream,
                 pieces, rootEarly, finalizedOK, unguarded, proof,
                 delta>>

\* After the Unlock: the staged bytes are written to the leaves and
\* Finalize returns what writeToLeaves returns.
FinalizeFlush(p) ==
  /\ pc[p] = "finalize_flush"
  /\ LET r == FinalizeFlushOp(Tree)
     IN /\ SetTree(r.t)
        /\ Return(p, Result(frame[p], "Finalize", 0, r.err, <<>>))
        /\ finalizedOK' = (finalizedOK \/ r.err = Nil)
  /\ Touch(p, "Finalize",
           IF writeCount > 0
             THEN {"writeCount", "writeBytes", "isFinal", "Leaves"}
             ELSE {"writeCount"})
  /\ UNCHANGED <<merkleRoot, writeLock, envVars, stream, pieces, rootEarly,
                 proof,
                 delta>>

\* ---------------------------------------------------------- GetMerkleRoot
\* GetMerkleRoot without the call of CalculateMerkleRoot.
RootOfCachedOnly(cached, leaves) == cached

\* GetMerkleRoot with the root computed on every call.
RootOfRecomputed(cached, leaves) == CalculateMerkleRoot(leaves)

\* fmt.merkleRoot when GetMerkleRoot returns: the cached root when there
\* is one, else the one CalculateMerkleRoot stores.
RootOf(cached, leaves) ==
  IF cached # <<>> THEN cached ELSE CalculateMerkleRoot(leaves)

GetMerkleRoot(p) ==
  /\ pc[p] = "idle"
  /\ nCalls < MaxCalls
  /\ nCalls' = nCalls + 1
  /\ merkleRoot' = RootOf(merkleRoot, Leaves)
  /\ ret' = [ret EXCEPT ![p] =
               Result(NewFrame, "GetMerkleRoot", 0, Nil,
                      HexEncode(merkleRoot'))]
  /\ rootEarly' = (rootEarly \/ ~finalizedOK)
  /\ UNCHANGED <<Leaves, isFinal, writeCount, writeBytes, writeLock, pc,
                 frame, file, off, nReloads, stream, pieces, reloadRes,
                 finalizedOK, unguarded, proof,
                 delta>>

\* ----------------------------------------------------------------- Reload
\* A caller calls Reload with a reader over the first n bytes of the file;
\* initLeaves runs at once.
CallReload(p, n) ==
  /\ pc[p] = "idle"
  /\ nCalls < MaxCalls
  /\ nReloads < MaxReloads
  /\ n <= MaxTotal
  /\ Leaves' = initLeaves
  /\ pc' = [pc EXCEPT ![p] = "reload_read"]
  /\ frame' = [frame EXCEPT ![p] =
                 [NewFrame EXCEPT !.reload = TRUE,
                                  !.reader = SubSeq(file, 1, n),
                                  !.src = SubSeq(file, 1, n),
                                  !.before =
                                    [staged |-> writeCount,
                                     isFinal |-> isFinal,
                                     cached |-> merkleRoot # <<>>]]]
  /\ nCalls' = nCalls + 1
  /\ nReloads' = nReloads + 1
  /\ reloadRes' = <<>>
  /\ UNCHANGED <<isFinal, writeCount, writeBytes, merkleRoot, writeLock, ret,
                 file, off, stream, pieces, rootEarly, finalizedOK, unguarded,
                 proof,
                 delta>>

\* One io.CopyN of the loop.  With bytes written Reload calls Write and
\* err becomes what Write returns; with none, io.EOF ends Reload with nil
\* and any other error is returned.
\* if written > 0
ReloadFeedsFullOnly(written) == written = MaxMerkleLeavesSize

ReloadFeeds(written) == written > 0

ReloadRead(p, failAt) ==
  /\ pc[p] = "reload_read"
  /\ failAt >= 0 => /\ frame[p].readErrs < MaxReadErrs
                    /\ failAt <= Len(frame[p].reader)
                    /\ failAt < MaxMerkleLeavesSize
  /\ LET c == CopyN(frame[p].reader, failAt)
         f == [frame[p] EXCEPT !.reader = c.rest,
                               !.readErrs = @ + (IF failAt >= 0 THEN 1 ELSE 0)]
     IN IF ReloadFeeds(c.written)
          THEN /\ pc' = [pc EXCEPT ![p] = "write_lock"]
               /\ frame' = [frame EXCEPT ![p] = [f EXCEPT !.b = c.buf]]
               /\ UNCHANGED <<ret, reloadRes>>
          ELSE Return(p, Result(f, "Reload", 0,
                                IF c.err = ErrEOF THEN Nil ELSE c.err, <<>>))
  /\ UNCHANGED <<treeVars, envVars, stream, pieces, rootEarly, finalizedOK,
                 unguarded, proof,
                 delta>>

\* ------------------------------------------------------- VerifyMerklePath
\* A verifier takes the path of leaf i of the finalized tree, claims leaf
\* index j for it and runs VerifyMerklePath.
Verify(i, j) ==
  /\ \A p \in Procs : pc[p] = "idle"
  /\ finalizedOK
  /\ proof = <<>>
  /\ LET fp == [BuildPath(Leaves, i) EXCEPT !.LeafInd = j]
     IN proof' = <<[fp |-> fp, leaf |-> i, ok |-> VerifyMerklePath(fp)]>>
  /\ UNCHANGED <<treeVars, callVars, envVars, stream, pieces, rootEarly,
                 reloadRes, finalizedOK, unguarded, delta>>

\* The two-leaf tree with the leaf digests of a and b and the root
\* MHashBytes(L0, L1): the path <<L1>> of leaf 0 is verified with the
\* claimed leaf index j.
VerifyPair(a, b, j) ==
  /\ proof = <<>>
  /\ LET L0 == GetHashBytes(a)
         L1 == GetHashBytes(b)
         fp == [LeafHash |-> L0, RootHash |-> MHashBytes(L0, L1),
                Nodes |-> <<L1>>, LeafInd |-> j]
     IN proof' = <<[fp |-> fp, leaf |-> 0, ok |-> VerifyMerklePath(fp)]>>
  /\ UNCHANGED <<treeVars, callVars, envVars, stream, pieces, rootEarly,
                 reloadRes, finalizedOK, unguarded, delta>>

\* One caller at a time: Write, Finalize and GetMerkleRoot in any order.
Next ==
  \/ \E n \in WriteLens : CallWrite(1, n)
  \/ WriteLock(1)
  \/ WriteBody(1)
  \/ CallFinalize(1)
  \/ FinalizeLock(1)
  \/ FinalizeFlush(1)
  \/ GetMerkleRoot(1)

Spec == Init /\ [][Next]_vars

\* One caller at a time: every call of the tree's interface, Reload
\* included, in any order.
ReloadNext ==
  \/ nCalls < MaxReloadCalls /\ \E n \in WriteLens : CallWrite(1, n)
  \/ WriteLock(1)
  \/ WriteBody(1)
  \/ nCalls < MaxReloadCalls /\ CallFinalize(1)
  \/ FinalizeLock(1)
  \/ FinalizeFlush(1)
  \/ nCalls < MaxReloadCalls /\ GetMerkleRoot(1)
  \/ nCalls < MaxReloadCalls /\ \E n \in SrcLens : CallReload(1, n)
  \/ \E k \in (-1)..MaxFailAt : ReloadRead(1, k)

ReloadSpec == Init /\ [][ReloadNext]_vars

\* Concurrent callers of Write and Finalize.
ConcNext ==
  \/ nCalls < MaxConcCalls /\ \E p \in Procs : \E n \in ConcLens : CallWrite(p, n)
  \/ \E p \in Procs : WriteLock(p)
  \/ \E p \in Procs : WriteBody(p)
  \/ nCalls < MaxConcCalls /\ \E p \in Procs : CallFinalize(p)
  \/ \E p \in Procs : FinalizeLock(p)
  \/ \E p \in Procs : FinalizeFlush(p)

ConcSpec == Init /\ [][ConcNext]_vars

\* Verifiers of the paths of finalized trees: the tree is what Write of the
\* first n bytes of a file and Finalize leave.
PathInit ==
  /\ file \in Files
  /\ \E n \in 0..MaxTotal :
       LET S == SubSeq(file, 1, n)
           t == FinalizeOp(WriteOp(NewFixedMerkleTree, S).t).t
       IN /\ Leaves = t.Leaves
          /\ isFinal = t.isFinal
          /\ writeCount = t.writeCount
          /\ writeBytes = t.writeBytes
          /\ off = n
          /\ stream = S
          /\ pieces = <<n>>
  /\ merkleRoot = <<>>
  /\ writeLock = Free
  /\ pc = [p \in Procs |-> "idle"]
  /\ frame = [p \in Procs |-> IdleFrame]
  /\ ret = [p \in Procs |-> NoRet]
  /\ nCalls = 2
  /\ nReloads = 0
  /\ rootEarly = FALSE
  /\ reloadRes = <<>>
  /\ finalizedOK = TRUE
  /\ unguarded = {}
  /\ proof = <<>>
  /\ delta = NoDelta

PathNext ==
  \/ \E i \in LeafIdx : \E j \in (-MaxIndex)..MaxIndex : Verify(i, j)
  \/ \E a, b \in {<<>>, <<1>>} : \E j \in (-MaxIndex)..MaxIndex :
       VerifyPair(a, b, j)

PathSpec == PathInit /\ [][PathNext]_vars

\* -------------------------------------------------------------- findDelta
\* The maps are built.
DeltaMaps ==
  /\ delta.pc = "maps"
  /\ delta' = DeltaMapsOf(delta)
  /\ UNCHANGED <<treeVars, callVars, envVars, stream, pieces, rootEarly,
                 reloadRes, finalizedOK, unguarded, proof>>

\* The loop over rMap takes its next key: any key not iterated yet (the
\* iteration order of a Go map is not specified).
DeltaRemote ==
  /\ delta.pc = "remote"
  /\ \E rPath \in delta.rTodo : delta' = RemoteIter(delta, rPath)
  /\ UNCHANGED <<treeVars, callVars, envVars, stream, pieces, rootEarly,
                 reloadRes, finalizedOK, unguarded, proof>>

\* The loop over rMap ends and the loop over what is left of lMap starts.
DeltaRemoteDone ==
  /\ delta.pc = "remote"
  /\ delta.rTodo = {}
  /\ delta' = [delta EXCEPT !.pc = "local", !.lTodo = DOMAIN delta.lMap]
  /\ UNCHANGED <<treeVars, callVars, envVars, stream, pieces, rootEarly,
                 reloadRes, finalizedOK, unguarded, proof>>

DeltaLocal ==
  /\ delta.pc = "local"
  /\ \E lPath \in delta.lTodo : delta' = LocalIter(delta, lPath)
  /\ UNCHANGED <<treeVars, callVars, envVars, stream, pieces, rootEarly,
                 reloadRes, finalizedOK, unguarded, proof>>

\* return lFDiff
DeltaReturn ==
  /\ delta.pc = "local"
  /\ delta.lTodo = {}
  /\ delta' = [delta EXCEPT !.pc = "done"]
  /\ UNCHANGED <<treeVars, callVars, envVars, stream, pieces, rootEarly,
                 reloadRes, finalizedOK, unguarded, proof>>

\* findDelta called with any three lists.
DeltaInit ==
  /\ Leaves = NewFixedMerkleTree.Leaves
  /\ isFinal = NewFixedMerkleTree.isFinal
  /\ writeCount = NewFixedMerkleTree.writeCount
  /\ writeBytes = NewFixedMerkleTree.writeBytes
  /\ merkleRoot = <<>>
  /\ writeLock = Free
  /\ pc = [p \in Procs |-> "idle"]
  /\ frame = [p \in Procs |-> IdleFrame]
  /\ ret = [p \in Procs |-> NoRet]
  /\ file = [k \in 1..MaxTotal |-> 0]
  /\ off = 0
  /\ nCalls = 0
  /\ nReloads = 0
  /\ stream = <<>>
  /\ pieces = <<>>
  /\ rootEarly = FALSE
  /\ reloadRes = <<>>
  /\ finalizedOK = FALSE
  /\ unguarded = {}
  /\ proof = <<>>
  /\ \E remote, local, prevRemote \in FileLists :
       delta = NewDelta(remote, local, prevRemote)

DeltaNext ==
  \/ DeltaMaps
  \/ DeltaRemote
  \/ DeltaRemoteDone
  \/ DeltaLocal
  \/ DeltaReturn

DeltaSpec == DeltaInit /\ [][DeltaNext]_vars

\* =================================================================== C1
\* The root of the tree that one Write of the whole stream S and Finalize
\* leave on a fresh tree.
RefTree(S) == FinalizeOp(WriteOp(NewFixedMerkleTree, S).t).t
RefRoot(S) == CalculateMerkleRoot(RefTree(S).Leaves)

\* C1: once a tree that received a stream through any sequence of Write
\* calls (empty pieces, cuts inside chunks and windows included) has been
\* finalized, its root, as the fold of its leaves and as returned by
\* GetMerkleRoot, is the root of a fresh tree that received the same
\* stream in one Write and was finalized.
C1_SplitInvariance ==
  finalizedOK =>
    /\ CalculateMerkleRoot(Leaves) = RefRoot(stream)
    /\ (ret[1].op = "GetMerkleRoot" /\ ~rootEarly) =>
         ret[1].val = HexEncode(RefRoot(stream))

\* Three pieces, the first ending inside a chunk, more than a window in
\* all, then Finalize and GetMerkleRoot.
C1_Witness ==
  /\ finalizedOK
  /\ ~rootEarly
  /\ ret[1].op = "GetMerkleRoot"
  /\ Len(pieces) = 3
  /\ pieces[1] % MerkleChunkSize # 0
  /\ pieces[2] > 0
  /\ pieces[3] > 0
  /\ Len(stream) > MaxMerkleLeavesSize
  /\ Len(stream) % MaxMerkleLeavesSize # 0

\* =================================================================== C2
\* The mutex was left locked by a call that has returned: no caller is
\* between a Lock() and its Unlock(), so no step ever unlocks it.
LockLeaked == writeLock # Free /\ pc[writeLock] # "write_loop"

\* C2: Finalize is one-shot: the first Finalize call returns nil, and every
\* Finalize call issued after a Finalize has returned nil returns the
\* "already finalized" error: what it returns is that error, and it does
\* return, that is, it is never left waiting for a mutex nobody will unlock.
C2_FinalizeOneShot ==
  \A p \in Procs :
    /\ (ret[p].op = "Finalize" /\ ret[p].afterFinal) =>
         ret[p].err = ErrAlreadyFinalized
    /\ (ret[p].op = "Finalize" /\ ~ret[p].afterFinal) =>
         ret[p].err \in {Nil, ErrAlreadyFinalized}
    /\ ~(pc[p] = "finalize_lock" /\ frame[p].afterFinal /\ LockLeaked)

\* =================================================================== C3
\* C3: every Write call issued after a Finalize has returned nil returns an
\* error with 0 bytes accepted, whatever calls came in between: what it
\* returns is an error, and it does return, that is, it is never left
\* waiting for a mutex nobody will unlock.
C3_WriteAfterFinalizeFails ==
  \A p \in Procs :
    /\ (ret[p].op = "Write" /\ ret[p].afterFinal) =>
         (ret[p].err # Nil /\ ret[p].n = 0)
    /\ ~(pc[p] = "write_lock" /\ ~frame[p].reload /\ frame[p].afterFinal
         /\ LockLeaked)

\* =================================================================== C4
\* The first three calls on the tree were Writes, the first of exactly one
\* window, the second of fewer bytes than a window and the third of at least
\* one byte, and the third has returned.
C4_ThreeWrites ==
  /\ nCalls = 3
  /\ pc[1] = "idle"
  /\ ~isFinal
  /\ ~rootEarly
  /\ Len(pieces) >= 2
  /\ pieces[1] = MaxMerkleLeavesSize
  /\ pieces[2] \in 1..(MaxMerkleLeavesSize - 1)
  /\ off > pieces[1] + pieces[2]

\* The first three calls on the tree were a Write of exactly one window, a
\* Write of fewer bytes than a window, and Finalize, which has returned.
C4_TwoWritesFinalize ==
  /\ nCalls = 3
  /\ pc[1] = "idle"
  /\ ~rootEarly
  /\ ret[1].op = "Finalize"
  /\ Len(pieces) = 2
  /\ pieces[1] = MaxMerkleLeavesSize
  /\ pieces[2] \in 1..(MaxMerkleLeavesSize - 1)

\* The leaves after one full window and the rest of the stream as the
\* terminal partial window.
C4_LeavesOf(S) ==
  ChunkLoop(ChunkLoop(initLeaves, SubSeq(S, 1, MaxMerkleLeavesSize), 0, 0),
            SubSeq(S, MaxMerkleLeavesSize + 1, Len(S)), 0, 0)

\* C4 as stated: after a Write of exactly one window and a Write of fewer
\* bytes than a window on a tree that is not finalized, a further Write
\* fails with an error.
C4_FurtherWriteFails ==
  C4_ThreeWrites => (ret[1].op = "Write" /\ ret[1].err # Nil)

\* C4 as amended: after a Write of exactly one window and a Write of fewer
\* bytes than a window on a tree that is not finalized, a further Write
\* succeeds: it accepts all its bytes, which are staged after the bytes of
\* the short Write (only full windows are dispatched before Finalize).  The
\* same two writes followed directly by Finalize succeed, the trailing
\* bytes going to the leaves as the terminal partial window.
C4_FurtherWriteStaged ==
  /\ C4_ThreeWrites =>
       /\ ret[1].op = "Write"
       /\ ret[1].err = Nil
       /\ Len(pieces) = 3
       /\ ret[1].n = pieces[3]
       /\ writeCount = (pieces[2] + pieces[3]) % MaxMerkleLeavesSize
  /\ C4_TwoWritesFinalize =>
       /\ ret[1].err = Nil
       /\ Leaves = C4_LeavesOf(stream)

\* A further Write of bytes after the short one has returned, and so has
\* Finalize after the two writes in another run: the first is the case.
C4_Witness ==
  /\ C4_ThreeWrites
  /\ Len(pieces) = 3
  /\ pieces[3] > 0
  /\ ret[1].op = "Write"

\* =================================================================== C5
\* C5: for every finalized tree and every leaf index i, the path made of
\* leaf i's digest, the sibling of the proven node at each level of the
\* fold (leaf level first), the index i and the root of the fold is
\* accepted by VerifyMerklePath.
C5_ProofRoundTrip ==
  (proof # <<>> /\ proof[1].fp.LeafInd = proof[1].leaf) => proof[1].ok

\* The path of the last leaf of a tree of more than one window, two levels
\* deep, verified with its own index.
C5_Witness ==
  /\ proof # <<>>
  /\ proof[1].leaf = FixedMerkleLeaves - 1
  /\ proof[1].fp.LeafInd = proof[1].leaf
  /\ Len(proof[1].fp.Nodes) = 2
  /\ proof[1].fp.LeafHash = GetHashBytes(Leaves[FixedMerkleLeaves - 1])
  /\ Len(stream) > MaxMerkleLeavesSize
  /\ proof[1].ok

\* =================================================================== C6
RECURSIVE HalfTimes(_, _)
HalfTimes(x, k) == IF k = 0 THEN x ELSE HalfTimes(Half(x), k - 1)

RECURSIVE Pow2(_)
Pow2(n) == IF n = 0 THEN 1 ELSE 2 * Pow2(n - 1)

\* The left/right choice VerifyMerklePath makes for index x at level k
\* (level 1 is the leaf level).
C6_SideAt(x, k) == LowBit(HalfTimes(x, k - 1))

\* The node proven at level k of the path fp of leaf i.
C6_ProvenAt(fp, i, k) ==
  VerifyLoop(SubSeq(fp.Nodes, 1, k - 1), 1, i, fp.LeafHash)

\* At some level the claimed index puts the proven node on the other side
\* than leaf i's index does, and the proven node differs from its sibling.
C6_Distinguishes(fp, i) ==
  \E k \in 1..Len(fp.Nodes) :
    /\ C6_SideAt(fp.LeafInd, k) # C6_SideAt(i, k)
    /\ C6_ProvenAt(fp, i, k) # fp.Nodes[k]

\* C6 as stated: a path accepted for leaf index i is rejected with LeafInd
\* replaced by any other integer j.
C6_AnyOtherIndexRejected ==
  (proof # <<>> /\ proof[1].fp.LeafInd # proof[1].leaf) => ~proof[1].ok

\* C6 as amended: a path accepted for leaf index i is rejected with LeafInd
\* replaced by j exactly when, at some level, j puts the proven node on the
\* other side than i does and the proven node differs from its sibling
\* there (Combine taken as collision-free).  So it is rejected for every j
\* in [0, 2^len(Nodes)) other than i when no proven node equals its
\* sibling, and accepted for j = i + 2^len(Nodes) and for a j that only
\* swaps equal digests.  In the two-leaf case with root Combine(L0, L1) and
\* L0 # L1, the path [L1] is accepted for index 0 and rejected for index 1.
C6_WrongIndexRejected ==
  proof # <<>> =>
    LET fp == proof[1].fp
        i  == proof[1].leaf
    IN /\ fp.LeafInd # i => (proof[1].ok <=> ~C6_Distinguishes(fp, i))
       /\ ( /\ fp.LeafInd # i
            /\ fp.LeafInd \in 0..(Pow2(Len(fp.Nodes)) - 1)
            /\ \A k \in 1..Len(fp.Nodes) : C6_ProvenAt(fp, i, k) # fp.Nodes[k] )
          => ~proof[1].ok
       /\ (Len(fp.Nodes) = 1 /\ i = 0 /\ fp.LeafHash # fp.Nodes[1]) =>
            /\ fp.LeafInd = 0 => proof[1].ok
            /\ fp.LeafInd = 1 => ~proof[1].ok

\* The path of a leaf of a tree whose leaf digests all differ, two levels
\* deep, rejected with another index of the tree.
C6_Witness ==
  /\ proof # <<>>
  /\ Len(proof[1].fp.Nodes) = 2
  /\ proof[1].fp.LeafInd \in LeafIdx
  /\ proof[1].fp.LeafInd # proof[1].leaf
  /\ \A a, b \in LeafIdx : a # b => Leaves[a] # Leaves[b]
  /\ proof[1].fp.LeafHash = GetHashBytes(Leaves[proof[1].leaf])
  /\ ~proof[1].ok

\* =================================================================== C7
\* The last Reload started on a tree with nothing staged, not finalized and
\* no root cached (a fresh tree is one), its source yielded all of its
\* bytes, and no caller has written to the tree.
C7_FreshReload ==
  /\ reloadRes # <<>>
  /\ reloadRes[1].before = Unused
  /\ reloadRes[1].readErrs = 0
  /\ pieces = <<>>

\* The bytes of S in full windows.
C7_FullWindows(S) == SubSeq(S, 1, Len(S) - (Len(S) % MaxMerkleLeavesSize))

\* C7 as stated: for every byte stream S, of any length, the root of a
\* fresh tree after Reload from a source that yields S is the root of a
\* fresh tree after Write(S) and Finalize.
C7_ReloadRootAgrees ==
  (C7_FreshReload /\ pc[1] = "idle" /\ ret[1].op = "Reload") =>
    CalculateMerkleRoot(Leaves) = RefRoot(reloadRes[1].src)

\* C7 as amended: after Reload of a fresh tree from a source that yields S,
\* the root is the root of a fresh tree after Write(S) and Finalize when
\* the length of S is a multiple of the window size; otherwise the bytes
\* after the last full window are staged, the root is that of the full
\* windows of S only and differs, and it becomes the root of Write(S) and
\* Finalize once the reloaded tree is finalized (Reload does not finalize).
C7_ReloadAgreesOnceFlushed ==
  C7_FreshReload =>
    LET S == reloadRes[1].src
    IN /\ (pc[1] = "idle" /\ ret[1].op = "Reload") =>
            /\ ret[1].err = Nil
            /\ writeCount = Len(S) % MaxMerkleLeavesSize
            /\ CalculateMerkleRoot(Leaves) = RefRoot(C7_FullWindows(S))
            /\ CalculateMerkleRoot(Leaves) = RefRoot(S)
                 <=> Len(S) % MaxMerkleLeavesSize = 0
       /\ finalizedOK =>
            /\ CalculateMerkleRoot(Leaves) = RefRoot(S)
            /\ (ret[1].op = "GetMerkleRoot" /\ ~rootEarly) =>
                 ret[1].val = HexEncode(RefRoot(S))

\* Reload as the first call on the tree, from a source of more than a
\* window that does not end on a window boundary, then Finalize and
\* GetMerkleRoot.
C7_Witness ==
  /\ C7_FreshReload
  /\ nCalls = 3
  /\ finalizedOK
  /\ pc[1] = "idle"
  /\ ret[1].op = "GetMerkleRoot"
  /\ ~rootEarly
  /\ Len(reloadRes[1].src) > MaxMerkleLeavesSize
  /\ Len(reloadRes[1].src) % MaxMerkleLeavesSize # 0
  /\ ret[1].val = HexEncode(RefRoot(reloadRes[1].src))

\* =================================================================== C8
\* C8: for every tree state (bytes staged by an earlier partial Write,
\* finalized, root cached) and every source stream S, Reload returns
\* without error and leaves the leaves those of a fresh tree after Reload
\* from the same S.
C8_ReloadDependsOnlyOnSource ==
  (pc[1] = "idle" /\ ret[1].op = "Reload" /\ ret[1].readErrs = 0) =>
    /\ ret[1].err = Nil
    /\ Leaves = ReloadOp(NewFixedMerkleTree, ret[1].src).t.Leaves

\* =================================================================== C9
\* C9: whenever a read from the source reports an error other than
\* end-of-input, with or without bytes, Reload returns that error; only
\* end-of-input ends Reload with nil.
C9_ReadErrorReturned ==
  (pc[1] = "idle" /\ ret[1].op = "Reload" /\ ret[1].readErrs > 0) =>
    ret[1].err = ErrRead

\* ================================================================== C10
\* C10: in every interleaving of concurrent Write and Finalize callers,
\* each read or write of writeCount, writeBytes, isFinal and the leaves
\* made by Write or Finalize happens while the caller holds writeLock.
C10_LockDiscipline == unguarded = {}

\* ================================================================== C11
\* C11 as stated: once Finalize has returned successfully, no later call
\* of Write, Finalize, GetMerkleRoot or Reload changes the digest of any
\* leaf.
C11_LeavesFrozen == [][finalizedOK => Leaves' = Leaves]_vars

\* C11 as amended: once Finalize has returned successfully, no later call
\* of Write, Finalize or GetMerkleRoot changes the digest of any leaf; a
\* later Reload resets every leaf to its empty state when it is called
\* (initLeaves) and changes no leaf after that.
C11_LeavesFrozenUntilReload ==
  [][finalizedOK =>
       \/ Leaves' = Leaves
       \/ /\ pc[1] = "idle"
          /\ pc'[1] = "reload_read"
          /\ nReloads' = nReloads + 1
          /\ Leaves' = initLeaves]_vars

\* After more than a window was written and finalized, a Write was refused
\* and left the leaves those of the finalized stream.
C11_Witness ==
  /\ finalizedOK
  /\ nReloads = 0
  /\ pc[1] = "idle"
  /\ ret[1].op = "Write"
  /\ ret[1].afterFinal
  /\ ret[1].err = ErrTreeFinalized
  /\ Len(stream) > MaxMerkleLeavesSize
  /\ Leaves = RefTree(stream).Leaves

\* ================================================================== C12
\* C12 as stated: for every sequence of Write and GetMerkleRoot calls that
\* precedes a successful Finalize, GetMerkleRoot called after that Finalize
\* returns the fold of the leaf digests as they are after Finalize, which
\* is the root of any other tree fed the same bytes.
C12_RootCommitsToLeaves ==
  (pc[1] = "idle" /\ ret[1].op = "GetMerkleRoot" /\ ret[1].afterFinal) =>
    /\ ret[1].val = HexEncode(CalculateMerkleRoot(Leaves))
    /\ ret[1].val = HexEncode(RefRoot(stream))

\* C12 as amended: for every sequence of Write calls that precedes a
\* successful Finalize, with no GetMerkleRoot call before that Finalize has
\* returned, GetMerkleRoot called after it returns the fold of the leaf
\* digests as they are after Finalize, which is the root of any other tree
\* fed the same bytes; after an earlier GetMerkleRoot call it returns the
\* root that call cached.
C12_RootCommitsUnlessCachedEarly ==
  (pc[1] = "idle" /\ ret[1].op = "GetMerkleRoot" /\ ret[1].afterFinal) =>
    /\ ret[1].val = HexEncode(merkleRoot)
    /\ ~rootEarly =>
         /\ ret[1].val = HexEncode(CalculateMerkleRoot(Leaves))
         /\ ret[1].val = HexEncode(RefRoot(stream))

\* Two windows and a part of a third written in three pieces, Finalize,
\* then the first GetMerkleRoot.
C12_Witness ==
  /\ pc[1] = "idle"
  /\ ret[1].op = "GetMerkleRoot"
  /\ ret[1].afterFinal
  /\ ~rootEarly
  /\ Len(pieces) = 3
  /\ Len(stream) > 2 * MaxMerkleLeavesSize
  /\ Len(stream) % MaxMerkleLeavesSize # 0
  /\ ret[1].val = HexEncode(CalculateMerkleRoot(RefTree(stream).Leaves))

\* ================================================================== C13
\* C13: once GetMerkleRoot has returned a value, every later GetMerkleRoot
\* call returns the same value, whatever Write, Finalize or Reload calls
\* happen in between, and GetMerkleRoot runs the fold at most once: no
\* step changes a root that is cached, a GetMerkleRoot call returns the
\* cached root in hex, and only a call that finds none cached computes one.
C13_CachedRootStable ==
  [][/\ merkleRoot # <<>> => merkleRoot' = merkleRoot
     /\ ret'[1].op = "GetMerkleRoot" =>
          /\ merkleRoot' # <<>>
          /\ ret'[1].val = HexEncode(merkleRoot')
     /\ (ret[1].op = "GetMerkleRoot" /\ ret'[1].op = "GetMerkleRoot") =>
          ret'[1].val = ret[1].val]_vars

\* GetMerkleRoot, a Write or Reload that changed the leaves, and a second
\* GetMerkleRoot that returned the cached root, not the fold of the leaves.
C13_Witness ==
  /\ pc[1] = "idle"
  /\ nCalls = 3
  /\ ret[1].op = "GetMerkleRoot"
  /\ rootEarly
  /\ ret[1].val = HexEncode(merkleRoot)
  /\ merkleRoot = CalculateMerkleRoot(initLeaves)
  /\ merkleRoot # CalculateMerkleRoot(Leaves)

\* ================================================================== C14
\* C14: in every state reachable by Write, Finalize and Reload calls,
\* whenever no Write is in progress writeCount is at least 0 and less than
\* the window size, and during a Write it never exceeds the capacity of
\* writeBytes.
C14_StagedCountInRange ==
  \A p \in Procs :
    /\ pc[p] # "write_loop" =>
         (writeCount >= 0 /\ writeCount < MaxMerkleLeavesSize)
    /\ pc[p] = "write_loop" =>
         WriteLoop(Tree, frame[p].b, 0, MaxMerkleLeavesSize - writeCount).peak
           <= Len(writeBytes)

\* With bytes staged, a Write of more than a window is in progress, fills
\* the buffer to its capacity and leaves one byte less than a window staged.
C14_Witness ==
  /\ pc[1] = "write_loop"
  /\ writeCount > 0
  /\ Len(frame[1].b) > MaxMerkleLeavesSize
  /\ LET r == WriteLoop(Tree, frame[1].b, 0, MaxMerkleLeavesSize - writeCount)
     IN /\ r.peak = Len(writeBytes)
        /\ r.t.writeCount = MaxMerkleLeavesSize - 1

\* ================================================================== C15
\* S[from .. to), empty when the range is.
C15_Slice(S, from, to) ==
  IF from >= to THEN <<>> ELSE SubSeq(S, from + 1, to)

\* The chunk of window w of S that belongs to leaf i.
C15_ChunkOf(S, w, i) ==
  C15_Slice(S,
            Min(w * MaxMerkleLeavesSize + i * MerkleChunkSize, Len(S)),
            Min(w * MaxMerkleLeavesSize + (i + 1) * MerkleChunkSize, Len(S)))

\* The chunks of leaf i in windows w and later, in increasing w.
RECURSIVE C15_LeafContent(_, _, _)
C15_LeafContent(S, i, w) ==
  IF w * MaxMerkleLeavesSize >= Len(S) THEN <<>>
  ELSE C15_ChunkOf(S, w, i) \o C15_LeafContent(S, i, w + 1)

RECURSIVE C15_SumLen(_, _)
C15_SumLen(leaves, i) ==
  IF i >= FixedMerkleLeaves THEN 0
  ELSE Len(leaves[i]) + C15_SumLen(leaves, i + 1)

\* C15: after successful Write calls whose concatenation is S and a
\* successful Finalize, the bytes accumulated by leaf i are the
\* concatenation, in increasing window number w, of
\* S[w*WindowSize + i*ChunkSize .. min(w*WindowSize + (i+1)*ChunkSize, |S|)),
\* every byte of S being fed to exactly one leaf exactly once.
C15_PerLeafContent ==
  finalizedOK =>
    /\ \A i \in LeafIdx : Leaves[i] = C15_LeafContent(stream, i, 0)
    /\ C15_SumLen(Leaves, 0) = Len(stream)

\* A stream whose bytes differ, of more than two windows and ending inside
\* a chunk, written in several pieces and finalized.
C15_Witness ==
  /\ finalizedOK
  /\ Len(pieces) >= 2
  /\ pieces[1] % MaxMerkleLeavesSize # 0
  /\ pieces[2] > 0
  /\ Len(stream) > 2 * MaxMerkleLeavesSize
  /\ Len(stream) % MerkleChunkSize # 0
  /\ stream[1] # stream[2]
  /\ Len(Leaves[0]) = 3 * MerkleChunkSize - 1
  /\ Leaves[0] = C15_ChunkOf(stream, 0, 0) \o C15_ChunkOf(stream, 1, 0)
                   \o C15_ChunkOf(stream, 2, 0)

\* ================================================================== C16
\* C16: every dispatch to the leaves made by Write carries exactly
\* WindowSize bytes; the only dispatch of fewer bytes is the single one
\* made by a successful Finalize, which carries between 1 and
\* WindowSize-1 bytes; and no dispatch reached through Write or Finalize
\* returns a size-violation error of writeToLeaves.
C16_DispatchSizes ==
  \A p \in Procs :
    /\ pc[p] = "write_loop" =>
         LET r == WriteLoop(Tree, frame[p].b, 0,
                            MaxMerkleLeavesSize - writeCount)
         IN /\ r.err = Nil
            /\ \A k \in 1..Len(r.sizes) : r.sizes[k] = MaxMerkleLeavesSize
    /\ pc[p] = "finalize_flush" =>
         LET r == FinalizeFlushOp(Tree)
         IN /\ r.err = Nil
            /\ ~finalizedOK
            /\ Len(r.sizes) <= 1
            /\ \A k \in 1..Len(r.sizes) :
                 r.sizes[k] >= 1 /\ r.sizes[k] < MaxMerkleLeavesSize
    /\ ret[p].err \notin {ErrTooLarge, ErrInvalidLeafWrite}

\* After Writes that dispatched two windows, Finalize is about to dispatch
\* the bytes left staged.
C16_Witness ==
  /\ pc[1] = "finalize_flush"
  /\ Len(stream) > 2 * MaxMerkleLeavesSize
  /\ writeCount > 0
  /\ FinalizeFlushOp(Tree).sizes = <<Len(stream) % MaxMerkleLeavesSize>>
  /\ FinalizeFlushOp(Tree).err = Nil

\* ================================================================== C17
RECURSIVE C17_Log2(_)
C17_Log2(n) == IF n <= 1 THEN 0 ELSE 1 + C17_Log2(n \div 2)

\* C17: with the fixed power-of-two leaf count, CalculateMerkleRoot ends
\* with exactly one node after log2(LeafCount) pairwise-reduction rounds,
\* within the bound of FixedMTDepth iterations; the node count is even at
\* the start of every round, so the duplicate-last-node branch is never
\* taken; and the stored root is the single remaining node.
C17_FoldShape ==
  LET f == FoldLoop(LeafHashes(Leaves), 0)
  IN /\ Len(f.nodes) = 1
     /\ Len(f.starts) = C17_Log2(FixedMerkleLeaves)
     /\ Len(f.starts) <= FixedMTDepth
     /\ f.starts[1] = FixedMerkleLeaves
     /\ \A k \in 1..Len(f.starts) : f.starts[k] % 2 = 0
     /\ (merkleRoot # <<>> /\ ~rootEarly) => merkleRoot = f.nodes[1]

\* GetMerkleRoot has folded the leaves of a finalized stream of more than
\* a window whose leaves all differ.
C17_Witness ==
  /\ finalizedOK
  /\ ~rootEarly
  /\ ret[1].op = "GetMerkleRoot"
  /\ Len(stream) > MaxMerkleLeavesSize
  /\ \A a, b \in LeafIdx : a # b => Leaves[a] # Leaves[b]
  /\ merkleRoot = FoldLoop(LeafHashes(Leaves), 0).nodes[1]
  /\ Len(FoldLoop(LeafHashes(Leaves), 0).starts) < FixedMTDepth

\* ================================================================== C18
RECURSIVE C18_Sum(_)
C18_Sum(q) == IF q = <<>> THEN 0 ELSE Head(q) + C18_Sum(Tail(q))

\* C18: in every interleaving of concurrent Write callers and a Finalize
\* caller, the bytes fed to the leaves by the time Finalize returns are the
\* concatenation, in the order the calls held the mutex, of the whole
\* arguments of exactly the Write calls that returned success, each once
\* and contiguously, and nothing else: a successful Write returns after
\* its whole argument was appended to that stream, a refused one appends
\* nothing, and after Finalize the leaves hold that stream, window by
\* window.
C18_ConcurrentWritesAtomic ==
  /\ Len(stream) = C18_Sum(pieces)
  /\ \A p \in Procs :
       (pc[p] = "idle" /\ ret[p].op = "Write") =>
         \/ ret[p].err = Nil /\ ret[p].n <= Len(stream)
         \/ ret[p].err = ErrTreeFinalized /\ ret[p].n = 0
  /\ finalizedOK =>
       /\ \A i \in LeafIdx : Leaves[i] = C15_LeafContent(stream, i, 0)
       /\ C15_SumLen(Leaves, 0) = C18_Sum(pieces)

\* One Write succeeded; then a Write called while Finalize had not
\* returned was refused, Finalize succeeded and the leaves hold the bytes
\* of the first Write only.
C18_Witness ==
  /\ finalizedOK
  /\ pc[1] = "idle"
  /\ pc[2] = "idle"
  /\ ret[1].op = "Write"
  /\ ret[1].err = ErrTreeFinalized
  /\ ~ret[1].afterFinal
  /\ ret[2].op = "Finalize"
  /\ ret[2].err = Nil
  /\ pieces = <<MerkleChunkSize + 1>>
  /\ Leaves[0] = SubSeq(stream, 1, MerkleChunkSize)

\* ================================================================== C19
C19_OpsOf(p) ==
  { delta.lFDiff[i].Op :
      i \in { k \in 1..Len(delta.lFDiff) : delta.lFDiff[k].Path = p } }

\* C19: for all remote, local and previous-snapshot lists with distinct
\* paths, no path occurs in two entries of the list findDelta returns (nor
\* of the list as it is built), and a path present both remotely and
\* locally never receives both a remote-side operation (Download, Delete,
\* Conflict) and a local-side operation (Upload, LocalDelete).
C19_OneDiffPerPath ==
  /\ \A i, j \in 1..Len(delta.lFDiff) :
       i # j => delta.lFDiff[i].Path # delta.lFDiff[j].Path
  /\ \A p \in PathsOf(delta.remote) \cap PathsOf(delta.local) :
       ~( /\ C19_OpsOf(p) \cap {Download, Delete, Conflict} # {}
          /\ C19_OpsOf(p) \cap {Upload, LocalDelete} # {} )

\* findDelta has returned a Conflict for a file listed on both sides and
\* modified on both, and an entry of the local loop for another file.
C19_Witness ==
  /\ delta.pc = "done"
  /\ Len(delta.lFDiff) = 2
  /\ \E p \in PathsOf(delta.remote) \cap PathsOf(delta.local) :
       /\ C19_OpsOf(p) = {Conflict}
       /\ \E q \in PathsOf(delta.local) \ PathsOf(delta.remote) :
            C19_OpsOf(q) \subseteq {Upload, LocalDelete, Update}
            /\ C19_OpsOf(q) # {}

====
